---- MODULE Spec2Model ----
(***************************************************************************)
(* ArrayInput / ObjectInput of packages/ui/src/custom-components/          *)
(* dynamic-Inputs.tsx as a state machine.                                  *)
(*                                                                         *)
(* One behaviour is the life of one mounted ArrayInput: its props `fields` *)
(* and `isReverse` are fixed at mount, `displayItems` is its useState      *)
(* buffer, `internalState` holds the useState buffer of the ObjectInput    *)
(* rendered at each index (rows are keyed by index), `held` is the         *)
(* collection the caller holds (what it last passed as `value` or last     *)
(* received through onChange), and `last` records the last event: which    *)
(* handler ran, its arguments and every collection it handed to onChange.  *)
(*                                                                         *)
(* JavaScript values are tagged records [t, v]; a row is a function from   *)
(* its keys to such values; reading a key the row does not have gives      *)
(* Undefined.  Indices are 1-based here and 0-based in the source.         *)
(*                                                                         *)
(* The last part of the module puts the dns ArrayInput into the sheet of   *)
(* ServerConfig (apps/admin/app/dashboard/servers/server-config.tsx) and   *)
(* adds its save flow, onSubmit.                                           *)
(***************************************************************************)
EXTENDS Integers, Sequences, FiniteSets, TLC

VARIABLES fields, isReverse, displayItems, internalState, held, last,
          open, saving, pc, submitted, server, cfgResp

\* the state of ServerConfig around its form: `open` and `saving` are its
\* useState flags, `pc` is the await at which a running onSubmit stands,
\* `submitted` the argument `values` of that onSubmit, `server` the dns
\* configuration the server holds and `cfgResp` the data of the query
saveVars == <<open, saving, pc, submitted, server, cfgResp>>

vars == <<fields, isReverse, displayItems, internalState, held, last,
          open, saving, pc, submitted, server, cfgResp>>

(* ------------------------------ bounds -------------------------------- *)
MaxRows == 3      \* createField is not taken beyond this many rows
MaxTags == 3      \* a tag is not added to an array of this many tags

(* --------------------------- JavaScript values ------------------------ *)
Undefined == [t |-> "undefined", v |-> 0]
Null == [t |-> "null", v |-> 0]
Str(s) == [t |-> "string", v |-> s]
Num(n) == [t |-> "number", v |-> n]
Bool(b) == [t |-> "boolean", v |-> b]
Arr(s) == [t |-> "array", v |-> s]

IsArray(val) == val.t = "array"

\* item[name] of a JavaScript object
Get(item, name) == IF name \in DOMAIN item THEN item[name] ELSE Undefined

\* a defect of Spread: the other keys of item are not copied
Spread_OnlyKey(item, key, fieldValue) == [k \in {key} |-> fieldValue]

\* { ...item, [key]: fieldValue }
Spread(item, key, fieldValue) ==
    [k \in (DOMAIN item) \cup {key} |-> IF k = key THEN fieldValue ELSE item[k]]

(* ------------------------------ schemas ------------------------------- *)
\* a FieldConfig: `options` is Undefined or an array of option values, `visible`
\* names the predicate ("none" when the descriptor has none), `render` names
\* the render function a caller put into the descriptor ("none" when it put none)
FieldConfig(name, type, options, visible) ==
    [name |-> name, type |-> type, options |-> options, visible |-> visible,
     render |-> "none"]

\* a descriptor as ServerConfig writes it for a field it wants to render
\* itself: a render function and no type (field.type is undefined)
FieldRender(name, render) ==
    [FieldConfig(name, "undefined", Undefined, "none") EXCEPT !.render = render]

Field(name, type) == FieldConfig(name, type, Undefined, "none")

SchemaTextTags == <<Field("a", "text"), Field("b", "tags")>>
SchemaNumberBool == <<Field("n", "number"), Field("c", "boolean")>>

Schemas == {SchemaTextTags, SchemaNumberBool}

\* the dns and outbound schemas of ServerConfig, cut down to the fields named
SchemaDns ==
    <<Field("address", "text"), Field("domains", "textarea"), Field("node_ids", "tags")>>
SchemaOutbound ==
    << FieldConfig("protocol", "select", Arr(<<"shadowsocks", "vless">>), "none"),
       FieldConfig("cipher", "select", Arr(<<"aes-128-gcm">>), "protocolIsShadowsocks"),
       Field("address", "text") >>

\* the dns schema of ServerConfig's first definition: node_ids has a render
SchemaDnsRender == <<Field("address", "text"), FieldRender("node_ids", "TagInput")>>

\* select fields with options, with an empty options list and without options
SchemaSelects ==
    << FieldConfig("proto", "select", Arr(<<"udp", "tcp">>), "none"),
       FieldConfig("empty", "select", Arr(<<>>), "none"),
       FieldConfig("absent", "select", Undefined, "none") >>

RowSchemas == {SchemaDns, SchemaOutbound, SchemaDnsRender, SchemaSelects}

FieldNames == {fields[i].name : i \in 1..Len(fields)}

FieldOf(name) == fields[CHOOSE i \in 1..Len(fields) : fields[i].name = name]

\* field.visible(internalState), for the predicates the schemas use
Visible(field, state) ==
    IF field.visible = "protocolIsShadowsocks"
    THEN Get(state, "protocol") = Str("shadowsocks")
    ELSE TRUE

(* ----------------------------- ArrayInput ----------------------------- *)
\* a defect of DefaultValue: a tags field starts as the empty string
DefaultValue_TagsAsString(type) == IF type = "boolean" THEN Bool(FALSE) ELSE Str("")

DefaultValue(type) ==
    IF type = "tags" THEN Arr(<<>>)
    ELSE IF type = "boolean" THEN Bool(FALSE)
    ELSE Str("")

initializeDefaultItem == [name \in FieldNames |-> DefaultValue(FieldOf(name).type)]

\* a defect of FieldModified: plain truthiness for everything that is no array
FieldModified_Truthy(val) ==
    IF IsArray(val) THEN Len(val.v) > 0
    ELSE val \notin {Undefined, Null, Str(""), Num(0), Bool(FALSE)}

FieldModified(val) ==
    IF IsArray(val) THEN Len(val.v) > 0
    ELSE val # Undefined /\ val # Null /\ val # Str("")

\* a defect of isItemModified: a field hidden for the item is not looked at
isItemModified_VisibleOnly(item) ==
    \E i \in 1..Len(fields) :
        Visible(fields[i], item) /\ FieldModified(Get(item, fields[i].name))

\* a defect of isItemModified: fields.every in place of fields.some
isItemModified_Every(item) ==
    \A i \in 1..Len(fields) : FieldModified(Get(item, fields[i].name))

isItemModified(item) ==
    \E i \in 1..Len(fields) : FieldModified(Get(item, fields[i].name))

\* `.filter(isItemModified)`: what handleItemChange and deleteField hand to onChange
filterModified(items) == SelectSeq(items, isItemModified)

\* the default parameter `value = []`
PropValue(value) == IF IsArray(value) THEN value.v ELSE <<>>

\* a defect of initialItems: no default row for an empty collection
initialItems_NoDefault(value) == PropValue(value)

\* the initial state of displayItems
initialItems(value) ==
    IF Len(PropValue(value)) > 0 THEN PropValue(value) ELSE <<initializeDefaultItem>>

\* handleItemChange: the copy of the buffer with the entry at index replaced
ReplaceAt(items, index, updatedItem) == [items EXCEPT ![index] = updatedItem]

\* a defect of handleItemChangeEmitted: the whole buffer is emitted, drafts included
handleItemChangeEmitted_Unfiltered(items, index, updatedItem) ==
    ReplaceAt(items, index, updatedItem)

\* handleItemChange: the collection handed to onChange
handleItemChangeEmitted(items, index, updatedItem) ==
    filterModified(ReplaceAt(items, index, updatedItem))

\* a defect of createFieldItems: isReverse is not looked at
createFieldItems_AlwaysAppend(items) == items \o <<initializeDefaultItem>>

\* a defect of createFieldItems: in front, the new row overwrites the first row
createFieldItems_Overwrite(items) ==
    IF isReverse THEN <<initializeDefaultItem>> \o Tail(items)
    ELSE items \o <<initializeDefaultItem>>

\* createField: the buffer with a default row put in front or at the end
createFieldItems(items) ==
    IF isReverse THEN <<initializeDefaultItem>> \o items
    ELSE items \o <<initializeDefaultItem>>

\* a defect of deleteFieldItems: an emptied buffer is not given a default row
deleteFieldItems_NoSeed(items, index) ==
    SubSeq(items, 1, index - 1) \o SubSeq(items, index + 1, Len(items))

\* a defect of deleteFieldItems: the last row is dropped, whatever the index
deleteFieldItems_Pop(items, index) ==
    LET newDisplayItems == SubSeq(items, 1, Len(items) - 1)
    IN  IF Len(newDisplayItems) > 0 THEN newDisplayItems ELSE <<initializeDefaultItem>>

\* deleteField: finalItems
deleteFieldItems(items, index) ==
    LET newDisplayItems == SubSeq(items, 1, index - 1) \o SubSeq(items, index + 1, Len(items))
    IN  IF Len(newDisplayItems) > 0 THEN newDisplayItems ELSE <<initializeDefaultItem>>

\* a defect of deleteFieldEmitted: the buffer before the deletion is emitted
deleteFieldEmitted_Stale(items, index) == filterModified(items)

\* deleteField: the collection handed to onChange
deleteFieldEmitted(items, index) == filterModified(deleteFieldItems(items, index))

\* a defect of effectItems: the draft rows of the buffer are kept after the
\* rows of the new collection
effectItems_KeepDrafts(items, value) ==
    IF Len(PropValue(value)) > 0
    THEN PropValue(value) \o SelectSeq(items, LAMBDA item : ~isItemModified(item))
    ELSE items

\* defects of effectItems: the effect is missing; the length guard is missing
effectItems_NoSync(items, value) == items

effectItems_Always(items, value) == PropValue(value)

\* the effect on [value]: a non-empty collection replaces the buffer
effectItems(items, value) ==
    IF Len(PropValue(value)) > 0 THEN PropValue(value) ELSE items

\* defects of the two buttons: the add button ignores isReverse; the delete
\* button is rendered on a sole row too
showAddButton_Last(index, items) == index = Len(items)

showDeleteButton_Always(index, items) == TRUE

\* the render of the row at index: is the add button, is the delete button in it
showAddButton(index, items) == IF isReverse THEN index = 1 ELSE index = Len(items)

showDeleteButton(index, items) == Len(items) > 1

(* ----------------------------- ObjectInput ---------------------------- *)
\* a defect of renderField: the visible predicate is not consulted
renderField_IgnoreVisible(field, state) ==
    IF field.type = "select"
    THEN (IF IsArray(field.options) THEN "Combobox" ELSE "undefined")
    ELSE IF field.type = "boolean" THEN "Switch"
    ELSE IF field.type = "textarea" THEN "Textarea"
    ELSE IF field.type = "tags" THEN "tags"
    ELSE "EnhancedInput"

\* renderField: "null" for a hidden field, else the widget the type switch
\* returns ("undefined" is `field.options && ...` of a select without options)
renderField(field, state) ==
    IF field.visible # "none" /\ ~Visible(field, state) THEN "null"
    ELSE IF field.type = "select"
    THEN (IF IsArray(field.options) THEN "Combobox" ELSE "undefined")
    ELSE IF field.type = "boolean" THEN "Switch"
    ELSE IF field.type = "textarea" THEN "Textarea"
    ELSE IF field.type = "tags" THEN "tags"
    ELSE "EnhancedInput"

\* defects of RenderRows: a changed value prop is merged into the buffer key by
\* key; a changed value prop is not taken at all
RenderRows_Merge(oldItems, newItems, oldStates) ==
    [i \in 1..Len(newItems) |->
        IF i > Len(oldItems) THEN newItems[i]
        ELSE IF newItems[i] # oldItems[i]
        THEN [k \in (DOMAIN oldStates[i]) \cup (DOMAIN newItems[i]) |->
                 IF k \in DOMAIN newItems[i] THEN newItems[i][k] ELSE oldStates[i][k]]
        ELSE oldStates[i]]

RenderRows_NoEffect(oldItems, newItems, oldStates) ==
    [i \in 1..Len(newItems) |->
        IF i > Len(oldItems) THEN newItems[i] ELSE oldStates[i]]

\* The ObjectInput at index i after ArrayInput rendered newItems: a row mounted
\* by this render starts from its value (useState), a row whose value prop
\* changed is overwritten by its effect, any other row keeps its buffer.
RenderRows(oldItems, newItems, oldStates) ==
    [i \in 1..Len(newItems) |->
        IF i > Len(oldItems) THEN newItems[i]
        ELSE IF newItems[i] # oldItems[i] THEN newItems[i]
        ELSE oldStates[i]]

\* the tags case reads the stored value defensively
TagsOf(state, name) == IF IsArray(Get(state, name)) THEN Get(state, name).v ELSE <<>>

Includes(tags, val) == \E k \in 1..Len(tags) : tags[k] = val

\* a defect of TagAccepted: no test for a tag the array already holds
TagAccepted_NoDedupe(tags, val) == val # ""

\* handleKeyDown: `val && !tags.includes(val)`
TagAccepted(tags, val) == val # "" /\ ~Includes(tags, val)

\* tags.filter(t => t !== tagToRemove)
WithoutTag(tags, tagToRemove) == SelectSeq(tags, LAMBDA t : t # tagToRemove)

\* what the user may type into the tag entry box, and String.prototype.trim on it
RawInputs == {"", " ", "1", " 1 "}

Trim(raw) ==
    CASE raw = "" -> ""
      [] raw = " " -> ""
      [] raw = " 1 " -> "1"
      [] OTHER -> raw

\* what the user may have in a textarea
TextInputs == {"", "a", "a\n", "a\nb", "a\n\nb"}

\* what the single-value widgets hand to onValueChange / onChange
InputValues(type) ==
    IF type = "number" THEN {Str(""), Num(0), Num(1)}
    ELSE IF type = "textarea" THEN {Str(text) : text \in TextInputs}
    ELSE {Str(""), Str("x")}

(* --------------------------- the caller ------------------------------- *)
\* rows a caller may hand in.  For the text/tags schema: a complete row and a
\* blank row.  For the number/boolean schema: a row holding only the number
\* 0 (no key c), a row whose schema keys are null / undefined next to a key
\* outside the schema, and a row holding only false and such a key.
RowComplete == [a |-> Str("x"), b |-> Arr(<<"1">>)]
RowBlank == [a |-> Str(""), b |-> Arr(<<>>)]
RowZero == [n |-> Num(0)]
RowNullish == [n |-> Null, c |-> Undefined, z |-> Str("k")]
RowFalse == [c |-> Bool(FALSE), z |-> Str("k")]

\* the `value` props the caller may pass
ExtValues ==
    {Undefined, Arr(<<>>)} \cup
    (IF fields = SchemaTextTags
       THEN {Arr(<<RowComplete>>), Arr(<<RowBlank>>), Arr(<<RowBlank, RowComplete>>)}
       ELSE {Arr(<<RowFalse>>), Arr(<<RowZero, RowNullish>>)})

(* ------------------------------ events -------------------------------- *)
NoItem == [none |-> Undefined]

\* `value` is the value prop of a mount or an effect run, and the fieldValue of
\* an updateField; `key` is the key of an updateField, `via` the widget handler
\* that called it and `raw` the text of the tag entry box on Enter
Event(op, index, item, value, emitted) ==
    [op |-> op, index |-> index, key |-> "", via |-> op, raw |-> "", item |-> item,
     value |-> value, emitted |-> emitted]

\* ServerConfig with no submission under way, the sheet open or not
SheetAtRest(isOpen) ==
    /\ open = isOpen
    /\ saving = FALSE
    /\ pc = "idle"
    /\ submitted = <<>>
    /\ server = <<>>
    /\ cfgResp = <<>>

Init ==
    /\ SheetAtRest(FALSE)
    /\ fields \in Schemas
    /\ isReverse \in BOOLEAN
    /\ \E value \in ExtValues :
        /\ displayItems = effectItems(initialItems(value), value)
        /\ held = PropValue(value)
        /\ last = Event("mount", 0, NoItem, value, <<>>)
    /\ internalState = displayItems

\* ObjectInput.updateField on the row at index, whose onChange is
\* handleItemChange(index, updatedItem); via and raw say which widget handler
\* called it
updateField(index, key, fieldValue, via, raw) ==
    LET updatedInternalState == Spread(internalState[index], key, fieldValue)
        newDisplayItems == ReplaceAt(displayItems, index, updatedInternalState)
    IN  /\ displayItems' = newDisplayItems
        /\ internalState' = RenderRows(displayItems, newDisplayItems,
                               [internalState EXCEPT ![index] = updatedInternalState])
        /\ held' = handleItemChangeEmitted(displayItems, index, updatedInternalState)
        /\ last' = [Event("handleItemChange", index, updatedInternalState, fieldValue,
                          <<handleItemChangeEmitted(displayItems, index, updatedInternalState)>>)
                      EXCEPT !.key = key, !.via = via, !.raw = raw]
        /\ UNCHANGED <<fields, isReverse, open, saving, pc, submitted, server, cfgResp>>

\* EnhancedInput / Textarea of a text, number or textarea field reports a value
InputChange ==
    \E index \in 1..Len(displayItems), f \in 1..Len(fields) :
        /\ renderField(fields[f], internalState[index]) \in {"EnhancedInput", "Textarea"}
        /\ \E fieldValue \in InputValues(fields[f].type) :
              updateField(index, fields[f].name, fieldValue, "InputChange", "")

\* Switch of a boolean field is toggled
SwitchChange ==
    \E index \in 1..Len(displayItems), f \in 1..Len(fields) :
        /\ renderField(fields[f], internalState[index]) = "Switch"
        /\ \E checked \in BOOLEAN :
              updateField(index, fields[f].name, Bool(checked), "SwitchChange", "")

\* Combobox of a select field reports the value of one of its options
SelectChange ==
    \E index \in 1..Len(displayItems), f \in 1..Len(fields) :
        /\ renderField(fields[f], internalState[index]) = "Combobox"
        /\ \E k \in 1..Len(fields[f].options.v) :
              updateField(index, fields[f].name, Str(fields[f].options.v[k]),
                          "SelectChange", "")

\* Enter in the entry box of a tags field holding one of the texts Raws
handleKeyDownOf(Raws) ==
    \E index \in 1..Len(displayItems), f \in 1..Len(fields), raw \in Raws :
        LET tags == TagsOf(internalState[index], fields[f].name)
            val == Trim(raw)
        IN  /\ renderField(fields[f], internalState[index]) = "tags"
            /\ IF TagAccepted(tags, val)
               THEN /\ Len(tags) < MaxTags
                    /\ updateField(index, fields[f].name, Arr(Append(tags, val)),
                                   "handleKeyDown", raw)
               ELSE /\ last' = [Event("handleKeyDown", index, NoItem, Undefined, <<>>)
                                  EXCEPT !.key = fields[f].name, !.raw = raw]
                    /\ UNCHANGED <<fields, isReverse, displayItems, internalState, held,
                                   open, saving, pc, submitted, server, cfgResp>>

handleKeyDown == handleKeyDownOf(RawInputs)

\* click on the x of a tag
removeTag ==
    \E index \in 1..Len(displayItems), f \in 1..Len(fields) :
        LET tags == TagsOf(internalState[index], fields[f].name)
        IN  /\ renderField(fields[f], internalState[index]) = "tags"
            /\ \E k \in 1..Len(tags) :
                  updateField(index, fields[f].name, Arr(WithoutTag(tags, tags[k])),
                              "removeTag", "")

\* a defect of createField: the insertion is emitted
createField_Emitting ==
    /\ Len(displayItems) < MaxRows
    /\ displayItems' = createFieldItems(displayItems)
    /\ internalState' = RenderRows(displayItems, displayItems', internalState)
    /\ held' = filterModified(displayItems')
    /\ last' = Event("createField", 0, NoItem, Undefined, <<filterModified(displayItems')>>)
    /\ UNCHANGED <<fields, isReverse, open, saving, pc, submitted, server, cfgResp>>

\* click on the add button
createField ==
    /\ Len(displayItems) < MaxRows
    /\ \E index \in 1..Len(displayItems) : showAddButton(index, displayItems)
    /\ displayItems' = createFieldItems(displayItems)
    /\ internalState' = RenderRows(displayItems, displayItems', internalState)
    /\ last' = Event("createField", 0, NoItem, Undefined, <<>>)
    /\ UNCHANGED <<fields, isReverse, held, open, saving, pc, submitted, server, cfgResp>>

\* the handler deleteField(index)
deleteFieldAt(index) ==
    /\ displayItems' = deleteFieldItems(displayItems, index)
    /\ internalState' = RenderRows(displayItems, displayItems', internalState)
    /\ held' = deleteFieldEmitted(displayItems, index)
    /\ last' = Event("deleteField", index, NoItem, Undefined,
                     <<deleteFieldEmitted(displayItems, index)>>)
    /\ UNCHANGED <<fields, isReverse, open, saving, pc, submitted, server, cfgResp>>

\* click on the delete button of a row; the button is rendered only while there
\* is more than one row
deleteField ==
    \E index \in 1..Len(displayItems) :
        /\ showDeleteButton(index, displayItems)
        /\ deleteFieldAt(index)

\* ArrayInput rendered with the value prop `value`: its effect runs
useEffectRun(value) ==
    /\ displayItems' = effectItems(displayItems, value)
    /\ internalState' = RenderRows(displayItems, displayItems', internalState)
    /\ held' = PropValue(value)
    /\ last' = Event("useEffect", 0, NoItem, value, <<>>)
    /\ UNCHANGED <<fields, isReverse, open, saving, pc, submitted, server, cfgResp>>

\* the caller renders ArrayInput with a new `value`: one of its own, or the
\* collection it holds
ExternalReplace == \E value \in ExtValues \cup {Arr(held)} : useEffectRun(value)

Next ==
    \/ InputChange
    \/ SwitchChange
    \/ handleKeyDown
    \/ removeTag
    \/ createField
    \/ deleteField
    \/ ExternalReplace

Spec == Init /\ [][Next]_vars

(* ======================================================================= *)
(* One row of ServerConfig's dns / outbound ArrayInput                     *)
(* ======================================================================= *)
\* Number(x) of a tag that is no number
NaN == [t |-> "NaN", v |-> 0]

\* Number(tag) on the tags the user can enter
ToNumber(tag) ==
    CASE tag = "1" -> Num(1)
      [] tag = "01" -> Num(1)
      [] OTHER -> NaN

\* String(n) of a small non-negative integer
NumberToString(n) == <<"0", "1", "2", "3", "4", "5", "6", "7", "8", "9">>[n.v + 1]

\* item.node_ids.map(Number) and item.node_ids.map(String)
mapNumber(tags) == [k \in 1..Len(tags) |-> ToNumber(tags[k])]
mapString(ids) == [k \in 1..Len(ids) |-> NumberToString(ids[k])]

\* the texts of the model and the characters each is made of
Texts == TextInputs \cup {"b"}

Chars(text) ==
    CASE text = "" -> <<>>
      [] text = "a" -> <<"a">>
      [] text = "b" -> <<"b">>
      [] text = "a\n" -> <<"a", "\n">>
      [] text = "a\nb" -> <<"a", "\n", "b">>
      [] text = "a\n\nb" -> <<"a", "\n", "\n", "b">>

FromChars(chars) == CHOOSE text \in Texts : Chars(text) = chars

\* String.prototype.split('\n') on the characters of a text
RECURSIVE splitNewline(_)
splitNewline(chars) ==
    IF \A k \in 1..Len(chars) : chars[k] # "\n" THEN <<chars>>
    ELSE LET k == CHOOSE k \in 1..Len(chars) :
                      chars[k] = "\n" /\ \A j \in 1..(k - 1) : chars[j] # "\n"
         IN  <<SubSeq(chars, 1, k - 1)>> \o splitNewline(SubSeq(chars, k + 1, Len(chars)))

\* a defect of filterBoolean: empty lines are kept
filterBoolean_KeepEmpty(lines) == lines

\* .filter(Boolean) on lines: the empty ones go
filterBoolean(lines) == SelectSeq(lines, LAMBDA line : line # <<>>)

\* Array.prototype.join('\n')
RECURSIVE joinNewline(_)
joinNewline(lines) ==
    IF lines = <<>> THEN <<>>
    ELSE IF Len(lines) = 1 THEN lines[1]
    ELSE lines[1] \o <<"\n">> \o joinNewline(Tail(lines))

\* item.domains.split('\n').filter(Boolean) and item.domains.join('\n')
splitDomains(text) ==
    LET lines == filterBoolean(splitNewline(Chars(text)))
    IN  [k \in 1..Len(lines) |-> FromChars(lines[k])]

joinDomains(domains) == FromChars(joinNewline([k \in 1..Len(domains) |-> Chars(domains[k])]))

\* defects of dnsOnChange: a tag that is no number is kept as NaN
keepNumbers_KeepNaN(ids) == ids

\* .filter(v => !isNaN(v))
keepNumbers(ids) == SelectSeq(ids, LAMBDA v : v # NaN)

\* the onChange ServerConfig passes to the dns ArrayInput: what it hands to
\* field.onChange
dnsOnChange(values) ==
    [i \in 1..Len(values) |->
        [address |-> Get(values[i], "address"),
         domains |-> IF Get(values[i], "domains").t = "string"
                     THEN Arr(splitDomains(Get(values[i], "domains").v))
                     ELSE Arr(<<>>),
         node_ids |-> IF IsArray(Get(values[i], "node_ids"))
                      THEN Arr(keepNumbers(mapNumber(Get(values[i], "node_ids").v)))
                      ELSE Arr(<<>>)]]

\* the value ServerConfig passes to the dns ArrayInput for the form value
dnsValue(fieldValue) ==
    [i \in 1..Len(fieldValue) |->
        Spread(Spread(fieldValue[i], "domains",
                      IF IsArray(Get(fieldValue[i], "domains"))
                      THEN Str(joinDomains(Get(fieldValue[i], "domains").v))
                      ELSE Str("")),
               "node_ids",
               IF IsArray(Get(fieldValue[i], "node_ids"))
               THEN Arr(mapString(Get(fieldValue[i], "node_ids").v))
               ELSE Arr(<<>>))]

\* a dns entry of the loaded server configuration, a row of some other caller
\* that has no node_ids key, and an outbound row whose protocol hides the
\* cipher it still holds, with a key that is no field of the schema
RowDnsForm ==
    [address |-> Str("x"), domains |-> Arr(<<"a", "b">>), node_ids |-> Arr(<<Num(1)>>)]
RowNoTags == [address |-> Str("x")]
RowNoIds == [address |-> Str("x"), node_ids |-> Arr(<<>>)]
RowCipherOnly == [protocol |-> Str(""), cipher |-> Str("aes-128-gcm"), address |-> Str("")]
RowVless == [protocol |-> Str("vless"), cipher |-> Str("aes-128-gcm"), name |-> Str("k")]

RowValues ==
    CASE fields = SchemaDns -> {Undefined, Arr(dnsValue(<<RowDnsForm>>)), Arr(<<RowNoTags>>)}
      [] fields = SchemaOutbound -> {Undefined, Arr(<<RowVless>>), Arr(<<RowCipherOnly>>)}
      [] fields = SchemaDnsRender -> {Undefined, Arr(<<RowNoIds>>)}
      [] OTHER -> {Undefined}

\* node ids as the user may type them
TagInputs == RawInputs \cup {"01", "x"}

InitRow ==
    /\ SheetAtRest(TRUE)
    /\ fields \in RowSchemas
    /\ isReverse = FALSE
    /\ \E value \in RowValues :
        /\ displayItems = effectItems(initialItems(value), value)
        /\ held = PropValue(value)
        /\ last = Event("mount", 0, NoItem, value, <<>>)
    /\ internalState = displayItems

handleKeyDownRow == handleKeyDownOf(TagInputs)

\* the handler deleteField applied to the only row
deleteFieldSole ==
    /\ Len(displayItems) = 1
    /\ deleteFieldAt(1)

\* field.onChange re-renders ServerConfig, which maps the form value it was
\* handed into a fresh `value` array
ServerConfigRender ==
    LET value == Arr(dnsValue(dnsOnChange(held)))
    IN  /\ fields = SchemaDns
        /\ displayItems' = effectItems(displayItems, value)
        /\ internalState' = RenderRows(displayItems, displayItems', internalState)
        /\ held' = PropValue(value)
        /\ last' = [Event("useEffect", 0, NoItem, value, <<>>) EXCEPT !.via = "ServerConfig"]
        /\ UNCHANGED <<fields, isReverse, open, saving, pc, submitted, server, cfgResp>>

ExternalReplaceRow == \E value \in RowValues : useEffectRun(value)

NextRow ==
    \/ InputChange
    \/ SelectChange
    \/ handleKeyDownRow
    \/ removeTag
    \/ deleteFieldSole
    \/ ServerConfigRender
    \/ ExternalReplaceRow

SpecRow == InitRow /\ [][NextRow]_vars

(* ======================================================================= *)
(* ServerConfig: the sheet, the dns form and onSubmit                      *)
(* ======================================================================= *)
\* the dns array of the form: what field.onChange was last handed
formDns == dnsOnChange(held)

\* the effect on [cfgResp, form]: form.reset when the query data changed
formAfter(newCfgResp) == IF newCfgResp # cfgResp THEN newCfgResp ELSE formDns

\* the data of the configuration query after a fetch that succeeded or failed
fetched(ok) == IF ok THEN server ELSE cfgResp

\* the sheet is open with the configuration of the server loaded into the form
InitSave ==
    /\ fields = SchemaDns
    /\ isReverse = FALSE
    /\ open = TRUE
    /\ saving = FALSE
    /\ pc = "idle"
    /\ submitted = <<>>
    /\ server \in {<<>>, <<RowDnsForm>>}
    /\ cfgResp = server
    /\ LET value == Arr(dnsValue(server))
       IN  /\ displayItems = effectItems(initialItems(value), value)
           /\ held = PropValue(value)
           /\ last = Event("mount", 0, NoItem, value, <<>>)
    /\ internalState = displayItems

\* click on the card: setOpen(true); the query is enabled and fetches, and
\* the sheet content mounts the ArrayInput on the dns array of the form
openSheet ==
    /\ ~open
    /\ open' = TRUE
    /\ \E ok \in BOOLEAN :
          /\ cfgResp' = fetched(ok)
          /\ LET value == Arr(dnsValue(formAfter(cfgResp')))
             IN  /\ displayItems' = effectItems(initialItems(value), value)
                 /\ held' = PropValue(value)
                 /\ last' = Event("mount", 0, NoItem, value, <<>>)
    /\ internalState' = displayItems'
    /\ UNCHANGED <<fields, isReverse, saving, pc, submitted, server>>

\* the sheet is dismissed: onOpenChange(false)
closeSheet ==
    /\ open
    /\ open' = FALSE
    /\ last' = Event("closeSheet", 0, NoItem, Undefined, <<>>)
    /\ UNCHANGED <<fields, isReverse, displayItems, internalState, held,
                   saving, pc, submitted, server, cfgResp>>

\* the user edits a field of the dns row in the open sheet
formEdit == open /\ InputChange

\* click on the save button, which is disabled while saving: onSubmit(values)
\* runs up to `await updateNodeConfig(values)`
onSubmit ==
    /\ open
    /\ ~saving
    /\ saving' = TRUE
    /\ pc' = "updateNodeConfig"
    /\ submitted' = formDns
    /\ last' = Event("onSubmit", 0, NoItem, Undefined, <<>>)
    /\ UNCHANGED <<fields, isReverse, displayItems, internalState, held,
                   open, server, cfgResp>>

\* updateNodeConfig resolves: toast, then onSubmit runs up to `await refetchCfg()`
updateNodeConfigResolved ==
    /\ pc = "updateNodeConfig"
    /\ server' = submitted
    /\ pc' = "refetchCfg"
    /\ last' = Event("updateNodeConfig.resolved", 0, NoItem, Undefined, <<>>)
    /\ UNCHANGED <<fields, isReverse, displayItems, internalState, held,
                   open, saving, submitted, cfgResp>>

\* a defect of updateNodeConfigRejected: no finally block
updateNodeConfigRejected_NoFinally ==
    /\ pc = "updateNodeConfig"
    /\ pc' = "idle"
    /\ last' = Event("updateNodeConfig.rejected", 0, NoItem, Undefined, <<>>)
    /\ UNCHANGED <<fields, isReverse, displayItems, internalState, held,
                   open, saving, submitted, server, cfgResp>>

\* updateNodeConfig rejects, whether or not the server took the update: the
\* try block is left and the finally block runs
updateNodeConfigRejected ==
    /\ pc = "updateNodeConfig"
    /\ server' \in {server, submitted}
    /\ saving' = FALSE
    /\ pc' = "idle"
    /\ last' = Event("updateNodeConfig.rejected", 0, NoItem, Undefined, <<>>)
    /\ UNCHANGED <<fields, isReverse, displayItems, internalState, held,
                   open, submitted, cfgResp>>

\* refetchCfg settles, with new data or without: changed data reset the form,
\* whose dns array reaches the ArrayInput as its value; then setOpen(false)
\* and, in the finally block, setSaving(false)
refetchCfgSettled ==
    /\ pc = "refetchCfg"
    /\ \E ok \in BOOLEAN :
          /\ cfgResp' = fetched(ok)
          /\ IF cfgResp' # cfgResp
             THEN LET value == Arr(dnsValue(cfgResp'))
                  IN  /\ displayItems' = effectItems(displayItems, value)
                      /\ internalState' = RenderRows(displayItems, displayItems', internalState)
                      /\ held' = PropValue(value)
             ELSE UNCHANGED <<displayItems, internalState, held>>
    /\ open' = FALSE
    /\ saving' = FALSE
    /\ pc' = "idle"
    /\ last' = Event("refetchCfg.settled", 0, NoItem, Undefined, <<>>)
    /\ UNCHANGED <<fields, isReverse, submitted, server>>

NextSave ==
    \/ openSheet
    \/ closeSheet
    \/ formEdit
    \/ onSubmit
    \/ updateNodeConfigResolved
    \/ updateNodeConfigRejected
    \/ refetchCfgSettled

\* a request that was sent settles
SpecSave ==
    /\ InitSave
    /\ [][NextSave]_vars
    /\ WF_vars(updateNodeConfigResolved \/ updateNodeConfigRejected)
    /\ WF_vars(refetchCfgSettled)

(* ======================================================================= *)
(* Properties                                                              *)
(* ======================================================================= *)

\* The is-set predicate and the draft filter as the specification words them.
ValueIsSet(val) ==
    \/ val.t = "array" /\ val.v # <<>>
    \/ /\ val.t \notin {"array", "undefined", "null"}
       /\ ~(val.t = "string" /\ val.v = "")

isRecordSet(item) ==
    \E name \in FieldNames \cap DOMAIN item : ValueIsSet(item[name])

RECURSIVE SetRows(_)
SetRows(items) ==
    IF items = <<>> THEN <<>>
    ELSE (IF isRecordSet(Head(items)) THEN <<Head(items)>> ELSE <<>>) \o SetRows(Tail(items))

NonEmptyValue(value) == value.t = "array" /\ value.v # <<>>

RowX == [a |-> Str("x"), b |-> Arr(<<>>)]

\* C1: a row update handleItemChange(i, r) on a valid index replaces exactly the
\* entry at i of the buffer and emits exactly one collection: the buffer after
\* the replacement restricted to the rows that are set, in buffer order.
C1_RowUpdateEmitsSetRows ==
    [][last'.op = "handleItemChange" =>
          /\ last'.index \in 1..Len(displayItems)
          /\ Len(displayItems') = Len(displayItems)
          /\ \A j \in 1..Len(displayItems) :
                displayItems'[j] = IF j = last'.index THEN last'.item ELSE displayItems[j]
          /\ Len(last'.emitted) = 1
          /\ last'.emitted[1] = SetRows(displayItems')]_vars

\* C1 witness: an update was made in a buffer that holds a set row and a draft
\* row, and emitted fewer rows than the buffer holds.
C1_Witness ==
    /\ last.op = "handleItemChange"
    /\ Len(displayItems) = 3
    /\ Len(last.emitted[1]) = 2
    /\ last.emitted[1][1] # last.emitted[1][2]

\* C2 as claimed: in every reachable state the collection the caller holds is
\* the buffer without its draft rows.  Stated for the schema {a: text, b: tags},
\* whose default row is a draft, so that a violation does not rest on C4.
C2_DraftProjectionAlways ==
    fields = SchemaTextTags => held = SetRows(displayItems)

\* C2 as amended: in every state reached by a row update or a row deletion the
\* collection the caller holds is the buffer without its draft rows, in order.
C2_DraftProjectionAfterEmission ==
    last.op \in {"handleItemChange", "deleteField"} => held = SetRows(displayItems)

\* C2 witness: after an update, one set row among three rendered rows.
C2_Witness ==
    /\ last.op = "handleItemChange"
    /\ Len(displayItems) = 3
    /\ Len(held) = 1
    /\ held = last.emitted[1]

\* C3: with schema {a: text, b: tags} and one default row, setting a to "x"
\* emits [{a: "x", b: []}]; setting a back to "" emits [] while one row stays
\* rendered.  In general the updated row is part of the emitted collection, at
\* its place among the set rows, iff one of its fields is set, and is not part
\* of it when all its fields are '' or [].
C3_RowVisibilityRoundTrip ==
    [][last'.op = "handleItemChange" =>
          LET i == last'.index
              r == last'.item
              out == last'.emitted[1]
              above == SetRows(SubSeq(displayItems, 1, i - 1))
              below == SetRows(SubSeq(displayItems, i + 1, Len(displayItems)))
          IN  /\ out = above \o (IF isRecordSet(r) THEN <<r>> ELSE <<>>) \o below
              /\ (\A name \in FieldNames : Get(r, name) \in {Str(""), Arr(<<>>)})
                    => out = above \o below
              /\ (fields = SchemaTextTags /\ displayItems = <<RowBlank>> /\ r = RowX)
                    => out = <<RowX>>
              /\ (fields = SchemaTextTags /\ displayItems = <<RowX>> /\ r = RowBlank)
                    => out = <<>> /\ Len(displayItems') = 1]_vars

\* C3 witness: the single row was cleared back to '' and [], nothing is
\* emitted and the row is still rendered.
C3_Witness ==
    /\ fields = SchemaTextTags
    /\ last.op = "handleItemChange"
    /\ last.item = RowBlank
    /\ last.emitted = << <<>> >>
    /\ displayItems = <<RowBlank>>

\* C4 as claimed: for every schema the default row is a draft, so that an
\* untouched inserted row is in no emitted collection.
C4_DefaultRowIsDraft ==
    /\ ~isItemModified(initializeDefaultItem)
    /\ \A k \in 1..Len(last.emitted) : \A j \in 1..Len(last.emitted[k]) :
          last.emitted[k][j] # initializeDefaultItem

\* C5: a value is set iff it is a non-empty array, or no array and none of
\* undefined, null and ''; so 0 and false are set and [] is not.  A record is
\* set iff one of the fields the schema names is set in it; other keys never
\* make it set.
C5_IsSetPredicate ==
    /\ \A k \in 1..Len(displayItems) :
          /\ isItemModified(displayItems[k]) <=> isRecordSet(displayItems[k])
          /\ \A name \in DOMAIN displayItems[k] :
                FieldModified(displayItems[k][name]) <=> ValueIsSet(displayItems[k][name])
    /\ FieldModified(Num(0))
    /\ FieldModified(Bool(FALSE))
    /\ ~FieldModified(Arr(<<>>))

\* C5 witness: a row holding only the number 0 is set, and next to it a row
\* whose only real value sits under a key outside the schema is not.
C5_Witness ==
    /\ displayItems = <<RowZero, RowNullish>>
    /\ isItemModified(displayItems[1])
    /\ ~isItemModified(displayItems[2])

\* C6: the buffer holds at least one row in every reachable state.
C6_AtLeastOneRow == Len(displayItems) >= 1

\* C6 witness: mounted without a collection, the buffer is one default row.
C6_Witness ==
    /\ last.op = "mount"
    /\ last.value = Undefined
    /\ displayItems = <<initializeDefaultItem>>

\* C7: an external replacement with a non-empty collection makes the buffer
\* equal to that collection row for row (no local row survives unless the
\* collection holds it) and emits nothing.
C7_NonEmptyReplacementResets ==
    [][last'.op = "useEffect" /\ NonEmptyValue(last'.value) =>
          /\ displayItems' = last'.value.v
          /\ last'.emitted = <<>>]_vars

\* C7 witness: the caller replaced the collection by one complete row and the
\* buffer is that row.
C7_Witness ==
    /\ last.op = "useEffect"
    /\ last.value = Arr(<<RowComplete>>)
    /\ displayItems = <<RowComplete>>

\* C8: an external replacement with an empty or undefined collection leaves
\* the buffer as it is and emits nothing.
C8_EmptyReplacementIgnored ==
    [][last'.op = "useEffect" /\ ~NonEmptyValue(last'.value) =>
          /\ displayItems' = displayItems
          /\ last'.emitted = <<>>]_vars

\* C8 witness: after a replacement by [] the buffer still holds a set row and
\* a draft row, while the caller holds nothing.
C8_Witness ==
    /\ last.op = "useEffect"
    /\ last.value = Arr(<<>>)
    /\ held = <<>>
    /\ \E j, k \in 1..Len(displayItems) :
          isRecordSet(displayItems[j]) /\ ~isRecordSet(displayItems[k])

\* The row at index i of the buffer is gone after the step: its record is
\* nowhere in the next buffer, and the step was not an update of that row.
RowGone(i) ==
    /\ \A j \in 1..Len(displayItems') : displayItems'[j] # displayItems[i]
    /\ ~(last'.op = "handleItemChange" /\ last'.index = i)

\* C9 as claimed: a row leaves the rendered list only by deleteField on its index.
C9_RemovedOnlyByDelete ==
    [][/\ \A i \in 1..Len(displayItems) :
             RowGone(i) => last'.op = "deleteField" /\ last'.index = i
       /\ Len(displayItems') < Len(displayItems) => last'.op = "deleteField"]_vars

\* C9 as amended: a row leaves the rendered list only by deleteField on its
\* index or by an external replacement with a non-empty collection.
C9_RemovedByDeleteOrReplacement ==
    [][/\ \A i \in 1..Len(displayItems) :
             RowGone(i) => \/ last'.op = "deleteField" /\ last'.index = i
                           \/ last'.op = "useEffect" /\ NonEmptyValue(last'.value)
       /\ Len(displayItems') < Len(displayItems) =>
             \/ last'.op = "deleteField"
             \/ last'.op = "useEffect" /\ NonEmptyValue(last'.value)]_vars

\* C9 witness: the middle row of three was deleted.
C9_Witness ==
    /\ last.op = "deleteField"
    /\ last.index = 2
    /\ Len(displayItems) = 2

\* C10: deleteField(i) on a buffer of n > 1 rows leaves the n-1 other rows in
\* their order and emits exactly once the resulting buffer without its drafts.
C10_DeleteRemovesExactlyOne ==
    [][last'.op = "deleteField" /\ Len(displayItems) > 1 =>
          /\ Len(displayItems') = Len(displayItems) - 1
          /\ \A j \in 1..Len(displayItems') :
                displayItems'[j] = IF j < last'.index THEN displayItems[j]
                                   ELSE displayItems[j + 1]
          /\ last'.emitted = <<SetRows(displayItems')>>]_vars

\* C10 witness: the first of three rows was deleted and the two rows left
\* differ, one of them a draft.
C10_Witness ==
    /\ last.op = "deleteField"
    /\ last.index = 1
    /\ Len(displayItems) = 2
    /\ displayItems[1] # displayItems[2]
    /\ Len(last.emitted[1]) = 1

\* C11: deleteField(0) on a buffer of one row leaves exactly one default row,
\* whatever the deleted row held, and emits that one-row buffer without its
\* drafts.
C11_SoleRowDeleteReseeds ==
    [][last'.op = "deleteField" /\ Len(displayItems) = 1 =>
          /\ displayItems' = <<initializeDefaultItem>>
          /\ last'.emitted = <<SetRows(displayItems')>>]_vars

\* C11 witness: the only row was deleted, one row is shown and the deletion
\* emitted the empty collection.
C11_Witness ==
    /\ last.op = "deleteField"
    /\ Len(displayItems) = 1
    /\ last.emitted = << <<>> >>

\* C12: createField adds exactly one default row, at index 0 when isReverse is
\* set and at the end otherwise; the rows present before keep their values and
\* their order (shifted by one with isReverse, in place otherwise).
C12_InsertionOrder ==
    [][last'.op = "createField" =>
          LET n == Len(displayItems)
          IN  /\ Len(displayItems') = n + 1
              /\ IF isReverse
                 THEN /\ displayItems'[1] = initializeDefaultItem
                      /\ \A j \in 1..n : displayItems'[j + 1] = displayItems[j]
                 ELSE /\ displayItems'[n + 1] = initializeDefaultItem
                      /\ \A j \in 1..n : displayItems'[j] = displayItems[j]]_vars

\* C12 witness: with isReverse, a row was added in front of two different set
\* rows.
C12_Witness ==
    /\ last.op = "createField"
    /\ isReverse
    /\ fields = SchemaTextTags
    /\ Len(displayItems) = 3
    /\ displayItems[1] = initializeDefaultItem
    /\ isRecordSet(displayItems[2])
    /\ isRecordSet(displayItems[3])
    /\ displayItems[2] # displayItems[3]

\* C13: a row insertion and an external replacement call onChange not at all;
\* a row update and a row deletion call it exactly once, whatever the emitted
\* collection is, so also when it equals the one emitted before.
C13_EmissionDiscipline ==
    /\ last.op \in {"createField", "useEffect"} => last.emitted = <<>>
    /\ last.op \in {"handleItemChange", "deleteField"} => Len(last.emitted) = 1

\* C13 witness: an edit that wrote the empty string into a blank row emitted the
\* empty collection, which the caller held already.
C13_Witness ==
    /\ last.op = "handleItemChange"
    /\ last.value = Str("")
    /\ last.emitted = << <<>> >>
    /\ Len(displayItems) = 1

\* C14: updateField(name, v) makes buffer[name] = v and leaves every other key
\* of the buffer as it was, be it the key of another field, of a hidden field or
\* of no field; the record handed to onChange is the whole merged record, which
\* is the new buffer, and it is handed over once.
C14_ShallowSingleKeyMerge ==
    [][last'.op = "handleItemChange" =>
          LET old == internalState[last'.index]
              new == internalState'[last'.index]
          IN  /\ DOMAIN new = (DOMAIN old) \cup {last'.key}
              /\ new[last'.key] = last'.value
              /\ \A k \in (DOMAIN old) \ {last'.key} : new[k] = old[k]
              /\ last'.item = new
              /\ Len(last'.emitted) = 1]_vars

\* C14 witness: the protocol of an outbound row was edited while the row holds
\* a cipher that is hidden and a key that is no field; both are still there.
C14_Witness ==
    /\ last.op = "handleItemChange"
    /\ last.key = "protocol"
    /\ ~Visible(FieldOf("cipher"), internalState[1])
    /\ internalState[1] = RowVless

\* C15: when the record supplied to an ObjectInput is new or has changed, its
\* buffer is that record exactly, with no key or value left from the buffer it
\* had; the effect run that replaces records emits nothing.
C15_InboundSyncReplaces ==
    [][/\ \A i \in 1..Len(displayItems') :
             (i > Len(displayItems) \/ displayItems'[i] # displayItems[i])
                 => internalState'[i] = displayItems'[i]
       /\ last'.op = "useEffect" => last'.emitted = <<>>]_vars

\* C15 witness: an external replacement supplied two rows with different keys
\* and the buffers are these rows.
C15_Witness ==
    /\ last.op = "useEffect"
    /\ last.value = Arr(<<RowZero, RowNullish>>)
    /\ internalState = <<RowZero, RowNullish>>

\* C16: each edit event yields one emission, computed from the row as all
\* earlier events left it: the record handed up is the current row of the buffer
\* with the edited key replaced, and the collection emitted is the current
\* buffer with that row replaced, drafts removed; it is what the caller holds
\* next.
C16_EmissionFreshness ==
    [][last'.op = "handleItemChange" =>
          /\ last'.item = [k \in (DOMAIN displayItems[last'.index]) \cup {last'.key} |->
                              IF k = last'.key THEN last'.value
                              ELSE displayItems[last'.index][k]]
          /\ last'.emitted =
                <<SetRows([displayItems EXCEPT ![last'.index] = last'.item])>>
          /\ held' = last'.emitted[1]]_vars

\* C16 witness: the emission of the second of two edits of a default row holds
\* the values of both edits, in the last of three rows.
C16_Witness ==
    /\ last.op = "handleItemChange"
    /\ last.index = 3
    /\ last.item = [n |-> Num(1), c |-> Bool(TRUE)]
    /\ held[Len(held)] = last.item

\* C17: renderField returns null exactly for a field whose descriptor has a
\* visible predicate that is false on the buffer; an edit event changes the
\* stored value of no field that is hidden before it, and of no field that is
\* hidden after it.
C17_VisibilityGating ==
    /\ [](\A i \in 1..Len(internalState), f \in 1..Len(fields) :
             renderField(fields[f], internalState[i]) = "null"
                <=> (fields[f].visible # "none" /\ ~Visible(fields[f], internalState[i])))
    /\ [][last'.op \in {"handleItemChange", "handleKeyDown"} =>
             \A f \in 1..Len(fields) :
                 LET old == internalState[last'.index]
                     new == internalState'[last'.index]
                 IN  (\/ renderField(fields[f], old) = "null"
                      \/ renderField(fields[f], new) = "null")
                         => Get(new, fields[f].name) = Get(old, fields[f].name)]_vars

\* C17 witness: the protocol was switched away from shadowsocks and the cipher
\* chosen before, now not rendered, is still stored.
C17_Witness ==
    /\ last.op = "handleItemChange"
    /\ last.key = "protocol"
    /\ last.value = Str("vless")
    /\ renderField(FieldOf("cipher"), internalState[1]) = "null"
    /\ Get(internalState[1], "cipher") = Str("aes-128-gcm")
    /\ DOMAIN internalState[1] = {"protocol", "cipher", "address"}

\* C18: Enter with the text s on the tag array T (empty when the stored value is
\* no array): with v = trim(s), if v is empty or in T nothing changes and
\* nothing is emitted; otherwise the field becomes T with v appended and the
\* record is emitted once.
C18_TagAdd ==
    [][last'.via = "handleKeyDown" =>
          LET old == internalState[last'.index]
              stored == Get(old, last'.key)
              T == IF stored.t = "array" THEN stored.v ELSE <<>>
              v == Trim(last'.raw)
          IN  IF v = "" \/ (\E k \in 1..Len(T) : T[k] = v)
              THEN /\ internalState' = internalState
                   /\ displayItems' = displayItems
                   /\ held' = held
                   /\ last'.emitted = <<>>
              ELSE /\ internalState'[last'.index] =
                          [k \in (DOMAIN old) \cup {last'.key} |->
                              IF k = last'.key THEN Arr(T \o <<v>>) ELSE old[k]]
                   /\ last'.item = internalState'[last'.index]
                   /\ Len(last'.emitted) = 1]_vars

\* C18 witness: the text " 1 " was entered on a row that holds the tag "1" and
\* nothing was done.
C18_Witness ==
    /\ last.op = "handleKeyDown"
    /\ last.raw = " 1 "
    /\ TagsOf(internalState[1], "node_ids") = <<"1">>

\* C19: removing a tag from the tag array T deletes the first occurrence of
\* that tag and nothing else, the other tags keep their order, and the record
\* is emitted once.
C19_RemoveFirstOccurrenceOnly ==
    [][last'.via = "removeTag" =>
          LET T == TagsOf(internalState[last'.index], last'.key)
              R == TagsOf(internalState'[last'.index], last'.key)
          IN  /\ \E k \in 1..Len(T) :
                    /\ \A j \in 1..(k - 1) : T[j] # T[k]
                    /\ R = SubSeq(T, 1, k - 1) \o SubSeq(T, k + 1, Len(T))
              /\ Len(last'.emitted) = 1]_vars

\* C20: in every reachable state the tag array of a tags field holds no string
\* twice.
C20_TagSetDeduplicated ==
    \A i \in 1..Len(internalState), f \in 1..Len(fields) :
        fields[f].type = "tags" =>
            LET T == TagsOf(internalState[i], fields[f].name)
            IN  \A j, k \in 1..Len(T) : T[j] = T[k] => j = k

\* the default row as the specification words it
DefaultRow ==
    [name \in {fields[f].name : f \in 1..Len(fields)} |->
        LET type == (CHOOSE fld \in {fields[f] : f \in 1..Len(fields)} : fld.name = name).type
        IN  CASE type = "tags" -> [t |-> "array", v |-> <<>>]
              [] type = "boolean" -> [t |-> "boolean", v |-> FALSE]
              [] OTHER -> [t |-> "string", v |-> ""]]

\* C21: initializeDefaultItem has exactly the field names of the schema as keys,
\* with [] for a tags field, false for a boolean field and '' for any other; an
\* ArrayInput mounted with an undefined or empty collection shows exactly one
\* such row, one mounted with a non-empty collection shows that collection.
C21_DefaultRowAndSeeding ==
    /\ initializeDefaultItem = DefaultRow
    /\ last.op = "mount" =>
          displayItems = IF NonEmptyValue(last.value) THEN last.value.v ELSE <<DefaultRow>>

\* C21 witness: mounted without a collection on the schema with a tags field,
\* the buffer is the one default row.
C21_Witness ==
    /\ last.op = "mount"
    /\ last.value = Undefined
    /\ fields = SchemaTextTags
    /\ displayItems = <<[a |-> Str(""), b |-> Arr(<<>>)]>>

\* C22: for a field whose descriptor carries a render override the type
\* dispatch is bypassed: what is rendered for the field is the override and
\* none of the widgets of the dispatch, and only the override writes the field.
C22_CustomRenderBypassesDispatch ==
    /\ [](\A i \in 1..Len(internalState), f \in 1..Len(fields) :
             fields[f].render # "none"
                => renderField(fields[f], internalState[i]) = fields[f].render)
    /\ [][last'.op = "handleItemChange"
             /\ (\E f \in 1..Len(fields) :
                    fields[f].name = last'.key /\ fields[f].render # "none")
          => last'.via = "render"]_vars

\* C23: a select field gets a widget to edit it iff its options are a non-empty
\* list (no options and an empty list both give nothing), and a selection
\* writes the value of the chosen option, which is one of the options, into
\* the field.
C23_SelectDispatch ==
    /\ [](\A i \in 1..Len(internalState), f \in 1..Len(fields) :
             fields[f].type = "select" /\ fields[f].visible = "none"
                => (renderField(fields[f], internalState[i]) = "Combobox"
                      <=> (fields[f].options.t = "array" /\ fields[f].options.v # <<>>)))
    /\ [][last'.via = "SelectChange" =>
             /\ \E f \in 1..Len(fields) :
                   /\ fields[f].name = last'.key
                   /\ \E k \in 1..Len(fields[f].options.v) :
                         last'.value = [t |-> "string", v |-> fields[f].options.v[k]]
             /\ internalState'[last'.index][last'.key] = last'.value]_vars

\* C24: in every state exactly one row carries the add control: the row at
\* index 0 with isReverse, the last row otherwise; after an insertion that row
\* is the default row just inserted.
C24_AddControlPlacement ==
    LET at == IF isReverse THEN 1 ELSE Len(displayItems)
    IN  /\ {i \in 1..Len(displayItems) : showAddButton(i, displayItems)} = {at}
        /\ last.op = "createField" => displayItems[at] = DefaultRow

\* C24 witness: with isReverse a row was inserted in front of a set row and
\* carries the add control, the last row does not.
C24_Witness ==
    /\ last.op = "createField"
    /\ isReverse
    /\ Len(displayItems) = 2
    /\ isRecordSet(displayItems[2])
    /\ ~isRecordSet(displayItems[1])
    /\ showAddButton(1, displayItems)
    /\ ~showAddButton(2, displayItems)

\* C25: the delete control is on every row while the buffer has more than one
\* row and on no row while it has one; so no deleteField raised by the UI acts
\* on a buffer of one row.
C25_DeleteControl ==
    /\ [](\A i \in 1..Len(displayItems) :
             showDeleteButton(i, displayItems) <=> Len(displayItems) > 1)
    /\ [][last'.op = "deleteField" => Len(displayItems) > 1]_vars

\* C25 witness: a deletion left one row, which has no delete control.
C25_Witness ==
    /\ last.op = "deleteField"
    /\ Len(displayItems) = 1
    /\ ~showDeleteButton(1, displayItems)

\* the numbers of the tags that parse as a number, in the order of the tags
RECURSIVE ParsedIds(_)
ParsedIds(T) ==
    IF T = <<>> THEN <<>>
    ELSE (IF ToNumber(Head(T)) = NaN THEN <<>> ELSE <<ToNumber(Head(T))>>)
            \o ParsedIds(Tail(T))

\* C26: ServerConfig stores for each emitted dns row exactly the numbers of the
\* row's tags that parse as a number, in the order of the tags, the others
\* being discarded, and hands the stored numbers to ArrayInput as strings.
C26_NumericTagConvention ==
    fields = SchemaDns =>
        \A i \in 1..Len(held) :
            LET stored == Get(held[i], "node_ids")
                T == IF stored.t = "array" THEN stored.v ELSE <<>>
                ids == dnsOnChange(held)[i].node_ids
                shown == dnsValue(dnsOnChange(held))[i].node_ids
            IN  /\ ids = [t |-> "array", v |-> ParsedIds(T)]
                /\ shown.t = "array"
                /\ Len(shown.v) = Len(ids.v)
                /\ \A k \in 1..Len(shown.v) : ToNumber(shown.v[k]) = ids.v[k]

\* C26 witness: a row was emitted whose tags are one that is no number and one
\* that is a number.
C26_Witness ==
    /\ fields = SchemaDns
    /\ last.op = "handleItemChange"
    /\ Len(held) = 1
    /\ TagsOf(held[1], "node_ids") = <<"x", "01">>

\* lists of at most two lines, a line being a non-empty string without newline
LineLists ==
    {<<>>} \cup {<<l>> : l \in {<<"a">>, <<"b">>}}
           \cup {<<l, m>> : l \in {<<"a">>, <<"b">>}, m \in {<<"a">>, <<"b">>}}

\* C27: a list of non-empty lines joined with newline, split on newline and
\* freed of empty lines is the list again; and the text of a textarea field is,
\* after ServerConfig has split what was emitted and joined it again for the
\* next render, the text the user entered.
C27_MultilineRoundTrip ==
    /\ [](\A L \in LineLists : filterBoolean(splitNewline(joinNewline(L))) = L)
    /\ [][last'.via = "ServerConfig" =>
             \A i \in 1..Len(displayItems') :
                 (i <= Len(displayItems) /\ Get(displayItems[i], "domains").t = "string")
                    => Get(displayItems'[i], "domains") = Get(displayItems[i], "domains")]_vars

\* C28: when the caller passes the collection a row update emitted back as the
\* new value, the buffer becomes that collection if it is non-empty, which is
\* the buffer without its draft rows, and stays as it is, drafts included, if
\* the collection is empty.
C28_ClosedLoopDraftRetention ==
    [][(/\ last.op = "handleItemChange"
        /\ last'.op = "useEffect"
        /\ last'.value = [t |-> "array", v |-> last.emitted[1]])
          => /\ displayItems' = IF last.emitted[1] # <<>> THEN last.emitted[1]
                                ELSE displayItems
             /\ last.emitted[1] # <<>> => displayItems' = SetRows(displayItems)]_vars

\* C28 witness: the collection emitted by an edit came back as the value and
\* is the buffer: one row, which no collection of the caller's own holds.
C28_Witness ==
    /\ last.op = "useEffect"
    /\ fields = SchemaTextTags
    /\ last.value = Arr(<<RowX>>)
    /\ displayItems = <<RowX>>
    /\ held = displayItems

\* C29: the draft filter looks at every field of the schema, hidden or not: an
\* updated row in which a field hidden for that row holds a set value is in the
\* emitted collection, as it is, the hidden value included.
C29_HiddenFieldsCount ==
    [][last'.op = "handleItemChange" =>
          ((\E f \in 1..Len(fields) :
               /\ fields[f].visible # "none"
               /\ ~Visible(fields[f], last'.item)
               /\ ValueIsSet(Get(last'.item, fields[f].name)))
             => \E j \in 1..Len(last'.emitted[1]) : last'.emitted[1][j] = last'.item)]_vars

\* C29 witness: an edit left a row whose only set value is the cipher, hidden
\* because the protocol is not shadowsocks, and the row was emitted.
C29_Witness ==
    /\ last.op = "handleItemChange"
    /\ last.item = [protocol |-> Str(""), cipher |-> Str("aes-128-gcm"), address |-> Str("")]
    /\ ~Visible(FieldOf("cipher"), last.item)
    /\ last.emitted = << <<last.item>> >>

\* C30: in every state in which a user event can be handled, the buffer of the
\* ObjectInput rendered at index i is the entry of the ArrayInput buffer at
\* index i, for every i.
C30_RowBufferAgreement ==
    /\ Len(internalState) = Len(displayItems)
    /\ \A i \in 1..Len(displayItems) : internalState[i] = displayItems[i]

\* C30 witness: with insertion in front, the first of three different rows was
\* deleted, so both rows left moved to another index, and the buffers agree.
C30_Witness ==
    /\ isReverse
    /\ last.op = "deleteField"
    /\ last.index = 1
    /\ Len(displayItems) = 2
    /\ displayItems[1] # displayItems[2]
    /\ displayItems[1] # initializeDefaultItem
    /\ internalState = displayItems

\* C31: onSubmit has saving true from before the call of updateNodeConfig until
\* the call, and after a success the refetch, has settled, and false again
\* then, on success and on failure, so that saving is false again after every
\* submission; onSubmit closes the sheet only when the refetch that follows a
\* successful update has completed; when the update fails no refetch is issued
\* and onSubmit leaves the sheet as it is.
C31_SaveFlow ==
    /\ [](saving <=> pc # "idle")
    /\ saving ~> ~saving
    /\ [][last'.op = "onSubmit" => ~saving /\ saving' /\ pc' = "updateNodeConfig"]_vars
    /\ [][pc' = "refetchCfg" /\ pc # "refetchCfg"
             => last'.op = "updateNodeConfig.resolved" /\ open' = open]_vars
    /\ [][last'.op = "updateNodeConfig.rejected"
             => ~saving' /\ pc' = "idle" /\ open' = open /\ cfgResp' = cfgResp]_vars
    /\ [][open /\ ~open' /\ last'.op # "closeSheet"
             => last'.op = "refetchCfg.settled" /\ pc = "refetchCfg" /\ ~saving']_vars

\* C31 witness: an update failed; the sheet is open and saving is false.
C31_Witness ==
    /\ last.op = "updateNodeConfig.rejected"
    /\ open
    /\ ~saving
    /\ pc = "idle"

====
